---- MODULE Spec2Model ----
(***************************************************************************)
(* Activity attendance on the activity detail page                         *)
(* (app/activities/[id]/page.tsx): several browser sessions toggle their   *)
(* user's attendance for activities kept in the relational store.          *)
(***************************************************************************)
EXTENDS Integers, Sequences, FiniteSets, TLC

(* ------------------------------ bounds --------------------------------- *)
MaxCapacity == 1
MaxWaitlist == 1
MaxMessages == 2          \* chat rows the message table can take

(* ----------------------------- constants ------------------------------- *)
NULL == "null"
Users == {"u1", "u2"}
Owner == "u1"             \* the creator of the activity
Sessions == {"s1", "s2"}  \* browser sessions with the detail page open
activityId == "a1"        \* the activity the detail pages are opened on
otherActivityId == "a2"   \* another activity of the store

\* capacity column: nullable => unlimited; <<>> is null, <<n>> the number n
NoCapacity == <<>>
Capacities == {NoCapacity} \cup {<<n>> : n \in 1..MaxCapacity}
Waitlists == 0..MaxWaitlist

DuplicateKeyMessage == "duplicate key value violates unique constraint"
FetchFailedMessage == "fetch failed"
ConfirmedInfo == "Attendance confirmed."
CanceledInfo == "Attendance canceled."
LoginRoute == "/login"
PageRoute == "/activities/[id]"

VARIABLES
  app_activities,          \* store: the ActivityRow of activityId
  app_activity_attendees,  \* store: rows in created_at order
  authUser,                \* identity provider: the user of each session, or NULL
  loading, userId, isOwner, confirmBusy, error, info,
  confirmedCount, attendees, isConfirmed, creatorAttendees,
  route,
  preConfirm,              \* history: per user, the rows before the user's standing confirm
  app_activity_messages,   \* store: chat rows in created_at order
  chatMessages, chatProfiles, chatLoading, chatBusy, chatError, chatInfo, chatText,
  chatFetch,               \* per session, the answer of the chat query in flight
  chatPost,                \* per session, the answer of the post rpc in flight
  activityRows,            \* store: the app_activities table the publishing pages write
  serial,                  \* store: number of activity ids issued so far
  eventImages,             \* object storage: file names in the event-images bucket
  pubUser,                 \* identity provider: the user of the publishing session, or NULL
  pubError, pubInfo, pubRoute,
  editLoading, editUserId, editActivity \* edit and detail pages: what the load effect kept

storeVars == <<app_activities, app_activity_attendees, authUser>>
pageVars == <<loading, userId, isOwner, confirmBusy, error, info,
              confirmedCount, attendees, isConfirmed, creatorAttendees, route>>
vars == <<app_activities, app_activity_attendees, authUser,
          loading, userId, isOwner, confirmBusy, error, info,
          confirmedCount, attendees, isConfirmed, creatorAttendees, route,
          preConfirm,
          app_activity_messages,
          chatMessages, chatProfiles, chatLoading, chatBusy, chatError, chatInfo, chatText,
          chatFetch, chatPost,
          activityRows, serial, eventImages, pubUser, pubError, pubInfo, pubRoute,
          editLoading, editUserId, editActivity>>
chatVars == <<app_activity_messages,
              chatMessages, chatProfiles, chatLoading, chatBusy, chatError, chatInfo,
              chatText, chatFetch, chatPost>>
\* the variables the attendance operations never touch
publishVars == <<activityRows, serial, eventImages, pubUser, pubError, pubInfo, pubRoute,
                 editLoading, editUserId, editActivity>>
restVars == <<chatVars, publishVars>>

(* ------------------------------ helpers -------------------------------- *)
RECURSIVE EqActivity(_, _)
\* .eq("activity_id", a): the rows of activity a, in created_at order
EqActivity(rows, a) ==
  IF rows = <<>> THEN <<>>
  ELSE LET rest == EqActivity(Tail(rows), a)
       IN IF Head(rows).activity_id = a THEN <<Head(rows)>> \o rest ELSE rest

RECURSIVE EqUser(_, _)
\* .eq("user_id", u): the rows of user u, in created_at order
EqUser(rows, u) ==
  IF rows = <<>> THEN <<>>
  ELSE LET rest == EqUser(Tail(rows), u)
       IN IF Head(rows).user_id = u THEN <<Head(rows)>> \o rest ELSE rest

RECURSIVE Without(_, _)
\* the rows of a table that are left when the rows in gone are deleted
Without(rows, gone) ==
  IF rows = <<>> THEN <<>>
  ELSE LET rest == Without(Tail(rows), gone)
       IN IF \E i \in 1..Len(gone) : gone[i] = Head(rows) THEN rest
          ELSE <<Head(rows)>> \o rest

NoStanding == [valid |-> FALSE, rows |-> <<>>]

FullName(u) == <<"name", u>>
Email(u) == <<"email", u>>

(* ------------------------- relational store ---------------------------- *)
\* variant: the table has no unique constraint on (activity_id, user_id)
InsertAttendeeNoUnique(rows, a, u) ==
  [rows |-> Append(rows, [activity_id |-> a, user_id |-> u]), error |-> NULL]

\* insert of one attendee row under the unique (activity_id, user_id) constraint
InsertAttendee(rows, a, u) ==
  IF Len(EqUser(EqActivity(rows, a), u)) > 0
  THEN [rows |-> rows, error |-> DuplicateKeyMessage]
  ELSE [rows |-> Append(rows, [activity_id |-> a, user_id |-> u]), error |-> NULL]

\* variant: the delete lacks the user filter
DeleteAttendeeNoUserFilter(rows, a, u) ==
  [rows |-> Without(rows, EqActivity(rows, a)), error |-> NULL]

\* variant: the delete lacks the activity filter
DeleteAttendeeNoActivityFilter(rows, a, u) ==
  [rows |-> Without(rows, EqUser(rows, u)), error |-> NULL]

\* variant: a delete that matches no row is reported as an error
DeleteAttendeeStrict(rows, a, u) ==
  IF Len(EqUser(EqActivity(rows, a), u)) = 0
  THEN [rows |-> rows, error |-> "not found"]
  ELSE [rows |-> Without(rows, EqUser(EqActivity(rows, a), u)), error |-> NULL]

\* delete().eq("activity_id", a).eq("user_id", u)
DeleteAttendee(rows, a, u) ==
  [rows |-> Without(rows, EqUser(EqActivity(rows, a), u)), error |-> NULL]

\* rpc app_activity_confirmed_count
app_activity_confirmed_count(rows, a) == Len(EqActivity(rows, a))

\* rpc app_activity_confirmed_list_for_creator
app_activity_confirmed_list_for_creator(rows, a) ==
  LET m == EqActivity(rows, a)
  IN [i \in 1..Len(m) |->
        [user_id |-> m[i].user_id, full_name |-> FullName(m[i].user_id),
         email |-> Email(m[i].user_id)]]

(* --------------------------- page fetchers ----------------------------- *)
\* each fetcher yields the new value of its state variable, or the thrown error
\* variant: the count is taken over the rows of every activity
fetchConfirmedCountAllRows(rows, ok) ==
  IF ok THEN [error |-> NULL, value |-> Len(rows)]
  ELSE [error |-> FetchFailedMessage, value |-> 0]

fetchConfirmedCount(rows, ok) ==
  IF ok THEN [error |-> NULL, value |-> app_activity_confirmed_count(rows, activityId)]
  ELSE [error |-> FetchFailedMessage, value |-> 0]

fetchIsConfirmed(rows, uid, ok) ==
  IF uid = NULL THEN [error |-> NULL, value |-> FALSE]
  ELSE LET m == EqUser(EqActivity(rows, activityId), uid)
       IN IF ~ok \/ Len(m) > 1 THEN [error |-> FetchFailedMessage, value |-> FALSE]
          ELSE [error |-> NULL, value |-> Len(m) = 1]

fetchAttendeeAvatars(rows, uid, ok) ==
  IF uid = NULL THEN [error |-> NULL, value |-> <<>>]
  ELSE IF ~ok THEN [error |-> FetchFailedMessage, value |-> <<>>]
  ELSE LET m == EqActivity(rows, activityId)
       IN [error |-> NULL,
           value |-> [i \in 1..Len(m) |->
                        [user_id |-> m[i].user_id, full_name |-> FullName(m[i].user_id)]]]

\* variant: the creator roster is fetched whoever the session's user is
fetchCreatorListNoGate(rows, owner, ok) ==
  IF ~ok THEN [error |-> FetchFailedMessage, value |-> <<>>]
  ELSE [error |-> NULL, value |-> app_activity_confirmed_list_for_creator(rows, activityId)]

fetchCreatorList(rows, owner, ok) ==
  IF ~owner THEN [error |-> NULL, value |-> <<>>]
  ELSE IF ~ok THEN [error |-> FetchFailedMessage, value |-> <<>>]
  ELSE [error |-> NULL, value |-> app_activity_confirmed_list_for_creator(rows, activityId)]

(* ------------------------------- Init ---------------------------------- *)
NoAnswer == [pending |-> FALSE]
\* the empty Record<string, ProfileMini>
NoProfiles == [u \in {} |-> NULL]

\* the chat state of freshly constructed pages over an empty message table
ChatInitial ==
  /\ app_activity_messages = <<>>
  /\ chatMessages = [s \in Sessions |-> <<>>]
  /\ chatProfiles = [s \in Sessions |-> NoProfiles]
  /\ chatLoading = [s \in Sessions |-> FALSE]
  /\ chatBusy = [s \in Sessions |-> FALSE]
  /\ chatError = [s \in Sessions |-> NULL]
  /\ chatInfo = [s \in Sessions |-> NULL]
  /\ chatText = [s \in Sessions |-> <<>>]
  /\ chatFetch = [s \in Sessions |-> NoAnswer]
  /\ chatPost = [s \in Sessions |-> NoAnswer]

\* the activity state of a page that has loaded none
NoActivity == [loaded |-> FALSE]

\* no publishing page is open (route <<>>, info <<>>) and the table they write holds nothing
PublishInitial ==
  /\ activityRows = <<>>
  /\ serial = 0
  /\ eventImages = {}
  /\ pubUser = NULL
  /\ pubError = NULL
  /\ pubInfo = <<>>
  /\ pubRoute = <<>>
  /\ editLoading = TRUE
  /\ editUserId = NULL
  /\ editActivity = NoActivity

Init ==
  /\ app_activities \in [created_by : {Owner}, capacity : Capacities,
                         waitlist_capacity : Waitlists]
  /\ app_activity_attendees = <<[activity_id |-> otherActivityId, user_id |-> Owner]>>
  /\ authUser \in [Sessions -> Users \cup {NULL}]
  /\ loading = [s \in Sessions |-> TRUE]
  /\ userId = [s \in Sessions |-> NULL]
  /\ isOwner = [s \in Sessions |-> FALSE]
  /\ confirmBusy = [s \in Sessions |-> FALSE]
  /\ error = [s \in Sessions |-> NULL]
  /\ info = [s \in Sessions |-> NULL]
  /\ confirmedCount = [s \in Sessions |-> 0]
  /\ attendees = [s \in Sessions |-> <<>>]
  /\ isConfirmed = [s \in Sessions |-> FALSE]
  /\ creatorAttendees = [s \in Sessions |-> <<>>]
  /\ route = [s \in Sessions |-> PageRoute]
  /\ preConfirm = [u \in Users |-> NoStanding]
  /\ ChatInitial
  /\ PublishInitial

(* ------------------------------ actions -------------------------------- *)
\* loadActivity and the mount effects of a freshly opened detail page
loadActivity(s) ==
  /\ ~confirmBusy[s] /\ (loading[s] \/ route[s] = LoginRoute)
  /\ \E okCount, okAvatars, okIsConfirmed, okCreator \in BOOLEAN :
       LET user == authUser[s]
           owner == user # NULL /\ user = app_activities.created_by
           rows == app_activity_attendees
       IN /\ userId' = [userId EXCEPT ![s] = user]
          /\ isOwner' = [isOwner EXCEPT ![s] = owner]
          /\ loading' = [loading EXCEPT ![s] = FALSE]
          /\ error' = [error EXCEPT ![s] = NULL]
          /\ info' = [info EXCEPT ![s] = NULL]
          /\ route' = [route EXCEPT ![s] = PageRoute]
          /\ confirmBusy' = [confirmBusy EXCEPT ![s] = FALSE]
          /\ confirmedCount' = [confirmedCount EXCEPT ![s] = fetchConfirmedCount(rows, okCount).value]
          /\ attendees' = [attendees EXCEPT ![s] = fetchAttendeeAvatars(rows, user, okAvatars).value]
          /\ isConfirmed' = [isConfirmed EXCEPT ![s] = fetchIsConfirmed(rows, user, okIsConfirmed).value]
          /\ creatorAttendees' = [creatorAttendees EXCEPT ![s] = fetchCreatorList(rows, owner, okCreator).value]
  /\ UNCHANGED <<storeVars, preConfirm, restVars>>

\* variant: the direction follows the stored entry instead of the isConfirmed flag
ToggleWriteByStore(rows, uid, confirmed) ==
  IF Len(EqUser(EqActivity(rows, activityId), uid)) = 0
  THEN InsertAttendee(rows, activityId, uid)
  ELSE DeleteAttendee(rows, activityId, uid)

\* variant: the branches are swapped
ToggleWriteSwapped(rows, uid, confirmed) ==
  IF confirmed THEN InsertAttendee(rows, activityId, uid)
  ELSE DeleteAttendee(rows, activityId, uid)

\* the branch of handleConfirmToggle: insert when not confirmed, delete otherwise
ToggleWrite(rows, uid, confirmed) ==
  IF ~confirmed THEN InsertAttendee(rows, activityId, uid)
  ELSE DeleteAttendee(rows, activityId, uid)

\* variant: the sign-in guard is missing
RequiresLoginNever(uid) == FALSE

\* the guard of handleConfirmToggle that sends an anonymous caller to sign-in
RequiresLogin(uid) == uid = NULL

\* history bookkeeping of a write by user u that turned the rows from old to new
RecordWrite(u, confirmed, old, new) ==
  IF new = old THEN preConfirm
  ELSE [v \in Users |->
          IF v = u /\ ~confirmed THEN [valid |-> TRUE, rows |-> old] ELSE NoStanding]

\* handleConfirmToggle from the click to the response of its write
handleConfirmToggle(s) ==
  /\ ~loading[s] /\ ~confirmBusy[s] /\ route[s] = PageRoute
  /\ UNCHANGED restVars
  /\ IF RequiresLogin(userId[s])
     THEN /\ route' = [route EXCEPT ![s] = LoginRoute]
          /\ UNCHANGED <<storeVars, preConfirm, loading, userId, isOwner, confirmBusy,
                         error, info, confirmedCount, attendees, isConfirmed,
                         creatorAttendees>>
     ELSE LET w == ToggleWrite(app_activity_attendees, userId[s], isConfirmed[s])
          IN /\ app_activity_attendees' = w.rows
             /\ preConfirm' = RecordWrite(userId[s], isConfirmed[s], app_activity_attendees, w.rows)
             /\ IF w.error # NULL
                THEN /\ error' = [error EXCEPT ![s] = w.error]
                     /\ info' = [info EXCEPT ![s] = NULL]
                     /\ confirmBusy' = [confirmBusy EXCEPT ![s] = FALSE]
                ELSE /\ error' = [error EXCEPT ![s] = NULL]
                     /\ info' = [info EXCEPT ![s] =
                                   IF isConfirmed[s] THEN CanceledInfo ELSE ConfirmedInfo]
                     /\ confirmBusy' = [confirmBusy EXCEPT ![s] = TRUE]
             /\ UNCHANGED <<app_activities, authUser, loading, userId, isOwner,
                            confirmedCount, attendees, isConfirmed, creatorAttendees, route>>

\* the refresh queries of handleConfirmToggle after a successful write, and its finally
refreshAfterToggle(s) ==
  /\ confirmBusy[s]
  /\ \E failAt \in 0..4 :
       LET rows == app_activity_attendees
           c == fetchConfirmedCount(rows, failAt # 1)
           a == fetchAttendeeAvatars(rows, userId[s], failAt # 2)
           i == fetchIsConfirmed(rows, userId[s], failAt # 3)
           l == fetchCreatorList(rows, isOwner[s], failAt # 4)
           okC == c.error = NULL
           okA == okC /\ a.error = NULL
           okI == okA /\ i.error = NULL
           okL == okI /\ l.error = NULL
       IN /\ confirmedCount' = [confirmedCount EXCEPT ![s] = IF okC THEN c.value ELSE @]
          /\ attendees' = [attendees EXCEPT ![s] = IF okA THEN a.value ELSE @]
          /\ isConfirmed' = [isConfirmed EXCEPT ![s] = IF okI THEN i.value ELSE @]
          /\ creatorAttendees' = [creatorAttendees EXCEPT ![s] = IF okL THEN l.value ELSE @]
          /\ error' = [error EXCEPT ![s] = IF okL THEN @ ELSE FetchFailedMessage]
  /\ confirmBusy' = [confirmBusy EXCEPT ![s] = FALSE]
  /\ UNCHANGED <<storeVars, preConfirm, loading, userId, isOwner, info, route, restVars>>

Next ==
  \E s \in Sessions :
    \/ loadActivity(s)
    \/ handleConfirmToggle(s)
    \/ refreshAfterToggle(s)

Spec == Init /\ [][Next]_vars

(* ===================== properties of attendance ====================== *)
Row(a, u) == [activity_id |-> a, user_id |-> u]
\* number of entries of the pair (a, u) in a table
EntriesOf(rows, a, u) == Cardinality({i \in 1..Len(rows) : rows[i] = Row(a, u)})
\* number of entries of activity a in a table
CountOf(rows, a) == Cardinality({i \in 1..Len(rows) : rows[i].activity_id = a})
\* the rows of a table other than those of the pair (a, u)
OthersOf(rows, a, u) == SelectSeq(rows, LAMBDA r : r # Row(a, u))

\* a click of an authenticated session on "Confirm attendance"
ConfirmAttempt(s) == userId[s] # NULL /\ ~isConfirmed[s] /\ handleConfirmToggle(s)
\* a click of an authenticated session on "Cancel attendance"
CancelAttempt(s) == userId[s] # NULL /\ isConfirmed[s] /\ handleConfirmToggle(s)

\* reference verdict of the Capacity & Waitlist Evaluator for a non-null capacity c,
\* waitlist capacity w, confirmed count k and waitlisted count q
RefVerdict(c, w, k, q) ==
  IF k < c THEN "Accepted" ELSE IF q < w THEN "Waitlisted" ELSE "Rejected"
\* of n stored entries the first c are confirmed and the rest are waitlisted
ConfirmedOf(n, c) == IF n < c THEN n ELSE c
WaitlistedOf(n, c) == n - ConfirmedOf(n, c)
\* the reference verdict for the activity in the current state
VerdictNow ==
  LET c == app_activities.capacity[1]
      n == CountOf(app_activity_attendees, activityId)
  IN RefVerdict(c, app_activities.waitlist_capacity, ConfirmedOf(n, c), WaitlistedOf(n, c))
Limited == app_activities.capacity # NoCapacity

\* C1: a confirm for (a,u) that follows u's confirm, with nothing in between,
\* leaves exactly one entry for (a,u) and a count one above the count before
\* the first confirm.
C1_ConfirmTwiceOneEntry ==
  [][\A s \in Sessions :
       (ConfirmAttempt(s) /\ preConfirm[userId[s]].valid) =>
         LET u == userId[s]
             before == preConfirm[u].rows
         IN /\ EntriesOf(app_activity_attendees', activityId, u) = 1
            /\ CountOf(app_activity_attendees', activityId) = CountOf(before, activityId) + 1
            /\ app_activity_attendees' = Append(before, Row(activityId, u))]_vars

\* a second confirm in sequence has been answered
C1_Witness ==
  \E s \in Sessions :
    /\ userId[s] # NULL /\ error[s] = DuplicateKeyMessage
    /\ preConfirm[userId[s]].valid

\* C2: the attendance store never holds two entries of one (activityId, userId) pair.
C2_AtMostOneEntryPerPair ==
  \A a \in {activityId, otherActivityId} : \A u \in Users \cup {NULL} :
    EntriesOf(app_activity_attendees, a, u) <= 1

\* a retried confirm of a user who holds an entry has reached the store
C2_Witness ==
  \E s \in Sessions :
    /\ error[s] = DuplicateKeyMessage
    /\ EntriesOf(app_activity_attendees, activityId, userId[s]) = 1

\* C3 (as claimed): a first-time confirm at verdict Rejected fails with an error and
\* leaves the entry set unchanged.
C3_RejectedConfirmCreatesNothing ==
  [][\A s \in Sessions :
       ( /\ ConfirmAttempt(s) /\ Limited
         /\ EntriesOf(app_activity_attendees, activityId, userId[s]) = 0
         /\ VerdictNow = "Rejected" ) =>
         (app_activity_attendees' = app_activity_attendees /\ error'[s] # NULL)]_vars

\* C4 (as claimed): with capacity 1 and waitlist 0, a confirm on the empty activity
\* creates the entry, and a confirm of another user while the seat is taken
\* creates none.
C4_BoundaryScenario ==
  [][\A s \in Sessions :
       ( /\ ConfirmAttempt(s)
         /\ app_activities.capacity = <<1>> /\ app_activities.waitlist_capacity = 0
         /\ EntriesOf(app_activity_attendees, activityId, userId[s]) = 0 ) =>
         IF CountOf(app_activity_attendees, activityId) = 0
         THEN EntriesOf(app_activity_attendees', activityId, userId[s]) = 1
         ELSE EntriesOf(app_activity_attendees', activityId, userId[s]) = 0]_vars

\* C5: with capacity null, a confirm of an authenticated user without an entry
\* is accepted and creates the entry.
C5_UnlimitedAlwaysAccepted ==
  [][\A s \in Sessions :
       ( /\ ConfirmAttempt(s) /\ ~Limited
         /\ EntriesOf(app_activity_attendees, activityId, userId[s]) = 0 ) =>
         /\ EntriesOf(app_activity_attendees', activityId, userId[s]) = 1
         /\ info'[s] = ConfirmedInfo /\ error'[s] = NULL]_vars

\* an unlimited activity has taken a confirm on top of an existing entry
C5_Witness ==
  /\ ~Limited
  /\ CountOf(app_activity_attendees, activityId) = 2
  /\ \E s \in Sessions : info[s] = ConfirmedInfo

\* C6 (as claimed): a first-time confirm creates the entry exactly when the
\* reference verdict is Accepted or Waitlisted.
C6_OutcomeAgreesWithVerdict ==
  [][\A s \in Sessions :
       ( /\ ConfirmAttempt(s) /\ Limited
         /\ EntriesOf(app_activity_attendees, activityId, userId[s]) = 0 ) =>
         ( (EntriesOf(app_activity_attendees', activityId, userId[s]) = 1)
             <=> (VerdictNow \in {"Accepted", "Waitlisted"}) )]_vars

\* C7: a cancel for (a,u) that follows u's confirm, with nothing in between,
\* restores the rows that were stored before the confirm.
C7_CancelRestores ==
  [][\A s \in Sessions :
       (CancelAttempt(s) /\ preConfirm[userId[s]].valid) =>
         /\ app_activity_attendees' = preConfirm[userId[s]].rows
         /\ EntriesOf(app_activity_attendees', activityId, userId[s]) = 0
         /\ CountOf(app_activity_attendees', activityId)
              = CountOf(preConfirm[userId[s]].rows, activityId)]_vars

\* a user has confirmed and cancelled while another user's entry stayed
C7_Witness ==
  \E s \in Sessions :
    /\ userId[s] # NULL /\ info[s] = CanceledInfo /\ ~confirmBusy[s]
    /\ ~isConfirmed[s]
    /\ EntriesOf(app_activity_attendees, activityId, userId[s]) = 0
    /\ CountOf(app_activity_attendees, activityId) = 1

\* C8: a cancel removes the entry of (a,u) when there is one (count minus one),
\* changes nothing when there is none, and reports no error in either case,
\* however full the activity is.
C8_CancelDeletesOrNoop ==
  [][\A s \in Sessions :
       CancelAttempt(s) =>
         LET u == userId[s]
             had == EntriesOf(app_activity_attendees, activityId, u)
         IN /\ error'[s] = NULL
            /\ EntriesOf(app_activity_attendees', activityId, u) = 0
            /\ IF had > 0
               THEN CountOf(app_activity_attendees', activityId)
                      = CountOf(app_activity_attendees, activityId) - 1
               ELSE app_activity_attendees' = app_activity_attendees]_vars

\* a cancel has succeeded on an activity that was over its capacity
C8_Witness ==
  /\ Limited
  /\ CountOf(app_activity_attendees, activityId) >= app_activities.capacity[1]
  /\ \E s \in Sessions : info[s] = CanceledInfo /\ confirmBusy[s]

\* C9: a toggle of a session without a user writes nothing and goes to sign-in.
C9_AnonymousToggleRedirects ==
  [][\A s \in Sessions :
       (userId[s] = NULL /\ handleConfirmToggle(s)) =>
         /\ app_activity_attendees' = app_activity_attendees
         /\ route'[s] = LoginRoute]_vars

\* an anonymous session has clicked the toggle
C9_Witness == \E s \in Sessions : userId[s] = NULL /\ route[s] = LoginRoute

\* C10: a toggle of a session of user u changes no row other than (activityId, u),
\* and no other operation of the page writes the attendance store.
C10_OnlyOwnEntryWritten ==
  [][/\ \A s \in Sessions :
          handleConfirmToggle(s) =>
            OthersOf(app_activity_attendees', activityId, userId[s])
              = OthersOf(app_activity_attendees, activityId, userId[s])
     /\ (\E s \in Sessions : loadActivity(s) \/ refreshAfterToggle(s)) =>
          app_activity_attendees' = app_activity_attendees]_vars

\* the owner has cancelled while another user's entry is stored
C10_Witness ==
  \E s \in Sessions :
    /\ isOwner[s] /\ info[s] = CanceledInfo
    /\ \E u \in Users \ {userId[s]} :
         EntriesOf(app_activity_attendees, activityId, u) = 1

\* the user ids of a roster, in order
RosterUsers(roster) == [i \in 1..Len(roster) |-> roster[i].user_id]

\* C11: the avatar roster of any session carries user id and display name only;
\* the creator roster carries name and email of each attendee and is non-empty
\* only in sessions of the activity's creator.
C11_RosterBoundary ==
  \A s \in Sessions :
    /\ confirmedCount[s] \in Nat
    /\ \A i \in 1..Len(attendees[s]) :
         /\ DOMAIN attendees[s][i] = {"user_id", "full_name"}
         /\ attendees[s][i].full_name = FullName(attendees[s][i].user_id)
    /\ \A i \in 1..Len(creatorAttendees[s]) :
         /\ creatorAttendees[s][i].full_name = FullName(creatorAttendees[s][i].user_id)
         /\ creatorAttendees[s][i].email = Email(creatorAttendees[s][i].user_id)
    /\ creatorAttendees[s] # <<>> =>
         (userId[s] # NULL /\ userId[s] = app_activities.created_by)

\* the creator and another user have read the same two entries
C11_Witness ==
  \E s, t \in Sessions :
    /\ userId[s] = app_activities.created_by
    /\ userId[t] # NULL /\ userId[t] # app_activities.created_by
    /\ Len(creatorAttendees[s]) = 2
    /\ RosterUsers(attendees[t]) = RosterUsers(creatorAttendees[s])
    /\ creatorAttendees[t] = <<>>

\* C17 (as claimed): a confirm for a pair that already has an entry reports no
\* error and leaves the rows unchanged.
C17_RepeatedConfirmIsSilent ==
  [][\A s \in Sessions :
       ( /\ ConfirmAttempt(s)
         /\ EntriesOf(app_activity_attendees, activityId, userId[s]) = 1 ) =>
         /\ error'[s] = NULL
         /\ app_activity_attendees' = app_activity_attendees]_vars

(* ----------------------------- spots left ------------------------------ *)
\* the capacity the detail page computes with: 0 when the record has none
detailCap == IF app_activities.capacity # NoCapacity THEN app_activities.capacity[1] ELSE 0

\* variant: the difference is shown as it is
spotsLeftNoFloor(s) == detailCap - confirmedCount[s]

\* the value shown after "Spots left:"
spotsLeft(s) == IF detailCap - confirmedCount[s] > 0 THEN detailCap - confirmedCount[s] ELSE 0

\* C24: for a capacity c and a displayed confirmed count k, the spots-left value
\* is c - k while k is at most c and 0 once k exceeds c; it is never negative.
C24_SpotsLeft ==
  \A s \in Sessions :
    /\ spotsLeft(s) >= 0
    /\ Limited =>
         LET c == app_activities.capacity[1]
             k == confirmedCount[s]
         IN /\ k <= c => spotsLeft(s) + k = c
            /\ k > c => spotsLeft(s) = 0

\* a page of a limited activity shows a count above the capacity
C24_Witness ==
  \E s \in Sessions :
    /\ Limited /\ ~loading[s]
    /\ confirmedCount[s] > app_activities.capacity[1]
    /\ spotsLeft(s) = 0

\* C25 (as claimed): the decision of a confirm is taken on a count read from the
\* store during the attempt: also when the count the page holds from an earlier
\* load differs from the stored one, a first-time confirm creates the entry
\* exactly when the stored count leaves room.
C25_DecisionOnFreshCount ==
  [][\A s \in Sessions :
       ( /\ ConfirmAttempt(s) /\ Limited
         /\ EntriesOf(app_activity_attendees, activityId, userId[s]) = 0
         /\ confirmedCount[s] # CountOf(app_activity_attendees, activityId) ) =>
         ( (EntriesOf(app_activity_attendees', activityId, userId[s]) = 0)
             <=> (VerdictNow = "Rejected") )]_vars

\* C26: a toggle changes the displayed count only by assigning the answer of the
\* store's count query: the write step leaves it alone, the refresh step sets it
\* to the number of stored entries of the activity or leaves it alone, and when
\* the toggle completes without an error the displayed count is that number.
C26_CountDerivedByQuery ==
  [][\A s \in Sessions :
       /\ handleConfirmToggle(s) => confirmedCount' = confirmedCount
       /\ refreshAfterToggle(s) =>
            /\ confirmedCount'[s] \in
                 {confirmedCount[s], CountOf(app_activity_attendees', activityId)}
            /\ error'[s] = NULL =>
                 confirmedCount'[s] = CountOf(app_activity_attendees', activityId)]_vars

\* a confirm has completed without an error on a page that now counts two entries
C26_Witness ==
  \E s \in Sessions :
    /\ ~confirmBusy[s] /\ error[s] = NULL /\ info[s] = ConfirmedInfo
    /\ confirmedCount[s] = 2
    /\ CountOf(app_activity_attendees, activityId) = 2

\* C27 (as claimed): on a page that is loaded with no toggle in flight, whose
\* user is signed in on this session only, the isConfirmed flag is true exactly
\* when the store holds an entry for the activity and the user.
C27_FlagAgreesWithStore ==
  \A s \in Sessions :
    ( /\ ~loading[s] /\ ~confirmBusy[s] /\ route[s] = PageRoute
      /\ userId[s] # NULL
      /\ \A t \in Sessions \ {s} : authUser[t] # userId[s] ) =>
      (isConfirmed[s] <=> EntriesOf(app_activity_attendees, activityId, userId[s]) = 1)

(* ============================ activity chat ============================ *)
ChatLimit == 50
MessageSentInfo == "Message sent."
\* texts a user types into the chat box
Texts == {<<" ">>, <<" ", "a", " ">>}

RECURSIVE TrimStart(_)
TrimStart(txt) ==
  IF txt # <<>> /\ Head(txt) = " " THEN TrimStart(Tail(txt)) ELSE txt

RECURSIVE TrimEnd(_)
TrimEnd(txt) ==
  IF txt # <<>> /\ txt[Len(txt)] = " " THEN TrimEnd(SubSeq(txt, 1, Len(txt) - 1)) ELSE txt

\* String.prototype.trim
Trim(txt) == TrimEnd(TrimStart(txt))

\* the outcomes of a lookup in the profiles table: it answers
ProfileAnswers == {TRUE}

\* a row of the profiles table as selected with "id,full_name,email"
ProfileOf(u) == [id |-> u, full_name |-> FullName(u), email |-> Email(u)]

\* variant: the rpc keeps one message per user and replaces the user's last one
app_post_activity_message_replacing(rows, a, u, text) ==
  LET kept == Without(rows, EqUser(EqActivity(rows, a), u))
      row == [id |-> Len(rows) + 1, activity_id |-> a, user_id |-> u,
              message |-> text, created_at |-> Len(rows) + 1]
  IN [rows |-> Append(kept, row), data |-> row]

\* rpc app_post_activity_message: appends the caller's message and returns the row
app_post_activity_message(rows, a, u, text) ==
  LET row == [id |-> Len(rows) + 1, activity_id |-> a, user_id |-> u,
              message |-> text, created_at |-> Len(rows) + 1]
  IN [rows |-> Append(rows, row), data |-> row]

\* select ... .eq("activity_id", a).order("created_at", ascending).limit(50)
SelectMessages(rows, a) ==
  LET m == EqActivity(rows, a)
  IN SubSeq(m, 1, IF Len(m) < ChatLimit THEN Len(m) ELSE ChatLimit)

\* Array.from(new Set(rows.map(r => r.user_id))).filter(Boolean)
SenderIds(rows) == {rows[i].user_id : i \in 1..Len(rows)} \ {NULL}

\* variant: the text is not tested after trimming
IsBlankNever(txt) == FALSE

\* the test of handleSendMessage on the trimmed text
IsBlank(txt) == Trim(txt) = <<>>

\* the pages are loaded and the message table is empty
InitChat ==
  /\ app_activities = [created_by |-> Owner, capacity |-> NoCapacity, waitlist_capacity |-> 0]
  /\ app_activity_attendees = <<>>
  /\ authUser \in {[s \in Sessions |-> IF s = "s1" THEN Owner ELSE u] : u \in {"u2", NULL}}
  /\ loading = [s \in Sessions |-> FALSE]
  /\ userId = authUser
  /\ isOwner = [s \in Sessions |-> authUser[s] = Owner]
  /\ confirmBusy = [s \in Sessions |-> FALSE]
  /\ error = [s \in Sessions |-> NULL]
  /\ info = [s \in Sessions |-> NULL]
  /\ confirmedCount = [s \in Sessions |-> 0]
  /\ attendees = [s \in Sessions |-> <<>>]
  /\ isConfirmed = [s \in Sessions |-> FALSE]
  /\ creatorAttendees = [s \in Sessions |-> <<>>]
  /\ route = [s \in Sessions |-> PageRoute]
  /\ preConfirm = [u \in Users |-> NoStanding]
  /\ ChatInitial
  /\ PublishInitial

attendanceVars == <<app_activities, app_activity_attendees, authUser, loading, userId,
                    isOwner, confirmBusy, error, info, confirmedCount, attendees,
                    isConfirmed, creatorAttendees, preConfirm>>

\* the textarea's onChange, while no post is in flight
setChatText(s, txt) ==
  /\ route[s] = PageRoute /\ userId[s] # NULL /\ ~chatBusy[s]
  /\ chatText' = [chatText EXCEPT ![s] = txt]
  /\ UNCHANGED <<attendanceVars, publishVars, route, app_activity_messages, chatMessages, chatProfiles,
                 chatLoading, chatBusy, chatError, chatInfo, chatFetch, chatPost>>

\* handleSendMessage from the call to the post rpc
handleSendMessage(s) ==
  /\ route[s] = PageRoute /\ ~chatBusy[s]
  /\ UNCHANGED <<attendanceVars, publishVars, chatMessages, chatProfiles, chatLoading, chatText, chatFetch>>
  /\ IF userId[s] = NULL
     THEN /\ route' = [route EXCEPT ![s] = LoginRoute]
          /\ UNCHANGED <<app_activity_messages, chatBusy, chatError, chatInfo, chatPost>>
     ELSE IF IsBlank(chatText[s])
     THEN UNCHANGED <<route, app_activity_messages, chatBusy, chatError, chatInfo, chatPost>>
     ELSE /\ Len(app_activity_messages) < MaxMessages
          /\ chatBusy' = [chatBusy EXCEPT ![s] = TRUE]
          /\ chatError' = [chatError EXCEPT ![s] = NULL]
          /\ chatInfo' = [chatInfo EXCEPT ![s] = NULL]
          /\ UNCHANGED route
          /\ \E ok \in BOOLEAN :
               LET r == app_post_activity_message(app_activity_messages, activityId,
                                                  userId[s], Trim(chatText[s]))
                   known == userId[s] \in DOMAIN chatProfiles[s]
               IN IF ok
                  THEN /\ app_activity_messages' = r.rows
                       /\ chatPost' = [chatPost EXCEPT ![s] =
                            [pending |-> TRUE, error |-> NULL, data |-> r.data, known |-> known]]
                  ELSE /\ UNCHANGED app_activity_messages
                       /\ chatPost' = [chatPost EXCEPT ![s] =
                            [pending |-> TRUE, error |-> FetchFailedMessage]]

\* handleSendMessage from the answer of the post rpc to its finally; the rpc
\* answers with the created row, so the fetchChat fallback is not taken
handleSendMessageAnswer(s) ==
  /\ chatPost[s].pending
  /\ chatPost' = [chatPost EXCEPT ![s] = NoAnswer]
  /\ chatBusy' = [chatBusy EXCEPT ![s] = FALSE]
  /\ UNCHANGED <<attendanceVars, publishVars, route, app_activity_messages, chatLoading, chatFetch>>
  /\ IF chatPost[s].error # NULL
     THEN /\ chatError' = [chatError EXCEPT ![s] = chatPost[s].error]
          /\ UNCHANGED <<chatMessages, chatProfiles, chatInfo, chatText>>
     ELSE /\ chatMessages' = [chatMessages EXCEPT ![s] = Append(@, chatPost[s].data)]
          /\ chatText' = [chatText EXCEPT ![s] = <<>>]
          /\ chatInfo' = [chatInfo EXCEPT ![s] = MessageSentInfo]
          /\ UNCHANGED chatError
          /\ IF chatPost[s].known
             THEN UNCHANGED chatProfiles
             ELSE \E okProfile \in ProfileAnswers :
                    chatProfiles' = [chatProfiles EXCEPT ![s] =
                      IF okProfile
                      THEN [u \in DOMAIN @ \cup {userId[s]} |->
                              IF u = userId[s] THEN ProfileOf(u) ELSE @[u]]
                      ELSE @]

\* variant: the feed is queried for a session without a user too
NoChatUserNever(uid) == FALSE

\* the test of fetchChat on userId
NoChatUser(uid) == uid = NULL

\* fetchChat up to the request of its messages query
fetchChat(s) ==
  /\ route[s] = PageRoute /\ ~chatLoading[s] /\ ~chatBusy[s]
  /\ chatError' = [chatError EXCEPT ![s] = NULL]
  /\ UNCHANGED <<attendanceVars, publishVars, route, app_activity_messages, chatBusy, chatInfo,
                 chatText, chatPost>>
  /\ IF NoChatUser(userId[s])
     THEN /\ chatMessages' = [chatMessages EXCEPT ![s] = <<>>]
          /\ chatProfiles' = [chatProfiles EXCEPT ![s] = NoProfiles]
          /\ UNCHANGED <<chatLoading, chatFetch>>
     ELSE /\ chatLoading' = [chatLoading EXCEPT ![s] = TRUE]
          /\ UNCHANGED <<chatMessages, chatProfiles>>
          /\ chatFetch' = [chatFetch EXCEPT ![s] = [pending |-> TRUE, answered |-> FALSE]]

\* the store runs the messages query of fetchChat, at any time between the
\* request and its answer
selectChatMessages(s) ==
  /\ chatFetch[s].pending /\ ~chatFetch[s].answered
  /\ UNCHANGED <<attendanceVars, publishVars, route, app_activity_messages, chatMessages,
                 chatProfiles, chatLoading, chatBusy, chatError, chatInfo, chatText, chatPost>>
  /\ \E ok \in BOOLEAN :
       chatFetch' = [chatFetch EXCEPT ![s] =
         IF ok
         THEN [pending |-> TRUE, answered |-> TRUE, error |-> NULL,
               data |-> SelectMessages(app_activity_messages, activityId)]
         ELSE [pending |-> TRUE, answered |-> TRUE, error |-> FetchFailedMessage]]

\* fetchChat from the answer of its messages query to its finally
fetchChatAnswer(s) ==
  /\ chatFetch[s].pending /\ chatFetch[s].answered
  /\ chatFetch' = [chatFetch EXCEPT ![s] = NoAnswer]
  /\ chatLoading' = [chatLoading EXCEPT ![s] = FALSE]
  /\ UNCHANGED <<attendanceVars, publishVars, route, app_activity_messages, chatBusy, chatInfo,
                 chatText, chatPost>>
  /\ IF chatFetch[s].error # NULL
     THEN /\ chatError' = [chatError EXCEPT ![s] = chatFetch[s].error]
          /\ UNCHANGED <<chatMessages, chatProfiles>>
     ELSE LET rows == chatFetch[s].data
              ids == SenderIds(rows)
          IN /\ chatMessages' = [chatMessages EXCEPT ![s] = rows]
             /\ IF ids = {}
                THEN /\ chatProfiles' = [chatProfiles EXCEPT ![s] = NoProfiles]
                     /\ UNCHANGED chatError
                ELSE \E okProfiles \in ProfileAnswers :
                       IF okProfiles
                       THEN /\ chatProfiles' = [chatProfiles EXCEPT ![s] =
                                                  [u \in ids |-> ProfileOf(u)]]
                            /\ UNCHANGED chatError
                       ELSE /\ chatError' = [chatError EXCEPT ![s] = FetchFailedMessage]
                            /\ UNCHANGED chatProfiles

NextChat ==
  \E s \in Sessions :
    \/ \E txt \in Texts : setChatText(s, txt)
    \/ handleSendMessage(s)
    \/ handleSendMessageAnswer(s)
    \/ fetchChat(s)
    \/ selectChatMessages(s)
    \/ fetchChatAnswer(s)

SpecChat == InitChat /\ [][NextChat]_vars

\* C20: a post whose text is empty after trimming, or whose session has no user,
\* appends no message to the store and leaves the displayed list unchanged; the
\* session without a user is sent to sign-in.
C20_BlankOrAnonymousPostRejected ==
  [][\A s \in Sessions :
       (handleSendMessage(s) /\ (userId[s] = NULL \/ Trim(chatText[s]) = <<>>)) =>
         /\ app_activity_messages' = app_activity_messages
         /\ chatMessages' = chatMessages
         /\ ~chatPost'[s].pending
         /\ userId[s] = NULL => route'[s] = LoginRoute]_vars

\* a session without a user has been sent to sign-in while another session holds
\* a blank text next to a displayed message
C20_Witness ==
  \E s, t \in Sessions :
    /\ userId[s] = NULL /\ route[s] = LoginRoute
    /\ userId[t] # NULL /\ chatText[t] # <<>> /\ Trim(chatText[t]) = <<>>
    /\ chatMessages[t] # <<>> /\ ~chatBusy[t]

\* a list of chat rows is in created_at order, oldest first
Ascending(rows) ==
  \A i, j \in 1..Len(rows) : i < j => rows[i].created_at <= rows[j].created_at

\* C21: the list an answered chat query carries and the list a session displays
\* are in postedAt order, oldest first, and hold at most the limit of messages.
C21_ChatOrdered ==
  \A s \in Sessions :
    /\ Ascending(chatMessages[s]) /\ Len(chatMessages[s]) <= ChatLimit
    /\ (chatFetch[s].pending /\ chatFetch[s].answered /\ chatFetch[s].error = NULL) =>
         (Ascending(chatFetch[s].data) /\ Len(chatFetch[s].data) <= ChatLimit)

\* C22: the chat store is append-only: every step keeps the stored messages as
\* they are and adds at most one; a post whose rpc succeeds adds exactly one
\* message, of the activity and authored by the posting user.
C22_ChatAppendOnly ==
  [][/\ Len(app_activity_messages') \in {Len(app_activity_messages), Len(app_activity_messages) + 1}
     /\ SubSeq(app_activity_messages', 1, Len(app_activity_messages)) = app_activity_messages
     /\ \A s \in Sessions :
          (handleSendMessage(s) /\ chatPost'[s].pending /\ chatPost'[s].error = NULL) =>
            /\ Len(app_activity_messages') = Len(app_activity_messages) + 1
            /\ app_activity_messages'[Len(app_activity_messages')].user_id = authUser[s]
            /\ app_activity_messages'[Len(app_activity_messages')].activity_id = activityId]_vars

\* two users have posted and the store holds both messages in the order posted
C22_Witness ==
  /\ Len(app_activity_messages) = 2
  /\ app_activity_messages[1].user_id # app_activity_messages[2].user_id
  /\ \A s \in Sessions : ~chatPost[s].pending

\* C23: fetchChat of a session without a user asks the store nothing, empties
\* the message list and the profile map, leaves chatError null and ends with
\* chatLoading false.
C23_AnonymousFeedIsEmpty ==
  [][\A s \in Sessions :
       (fetchChat(s) /\ userId[s] = NULL) =>
         /\ chatMessages'[s] = <<>>
         /\ chatProfiles'[s] = NoProfiles
         /\ chatError'[s] = NULL
         /\ ~chatLoading'[s]
         /\ ~chatFetch'[s].pending
         /\ app_activity_messages' = app_activity_messages]_vars

\* a session without a user shows an empty feed while the store holds messages
C23_Witness ==
  \E s \in Sessions :
    /\ userId[s] = NULL /\ route[s] = PageRoute
    /\ app_activity_messages # <<>>
    /\ chatMessages[s] = <<>> /\ chatError[s] = NULL /\ ~chatLoading[s]

\* the stored messages a session has posted and seen answered
OwnPosted(s) ==
  {app_activity_messages[i] : i \in {k \in 1..Len(app_activity_messages) :
      /\ app_activity_messages[k].user_id = userId[s]
      /\ ~(chatPost[s].pending /\ chatPost[s].error = NULL
           /\ chatPost[s].data = app_activity_messages[k])}}

\* C28: whatever the order of a chat refresh and a post of one session, the
\* list the session displays holds no message id twice and holds every message
\* the session has posted successfully.
C28_NoDuplicateNoLoss ==
  \A s \in Sessions :
    userId[s] # NULL =>
      /\ \A i, j \in 1..Len(chatMessages[s]) :
           i # j => chatMessages[s][i].id # chatMessages[s][j].id
      /\ \A m \in OwnPosted(s) : \E i \in 1..Len(chatMessages[s]) : chatMessages[s][i] = m

\* C29: in a session of a user who is not the owner, the profile map filled by
\* the chat feed holds no email of a user other than the viewer.
C29_NoForeignEmail ==
  \A s \in Sessions :
    (userId[s] # NULL /\ userId[s] # app_activities.created_by) =>
      \A u \in DOMAIN chatProfiles[s] :
        u # userId[s] => chatProfiles[s][u].email = NULL

(* ==================== publishing: create and edit ===================== *)
MaxImages == 1            \* files the event-images bucket can take

\* the edit pages are opened on the first record of the table
editId == <<"activity", 1>>

\* Number values are kept in hundredths: 150 is 1.5 and 200 is 2; a null text,
\* number or path of a column is <<>>
NaN == [finite |-> FALSE, h |-> 0]
Digits == {"0", "1", "2", "3", "4", "5", "6", "7", "8", "9"}
DigitVal(c) ==
  CASE c = "0" -> 0 [] c = "1" -> 1 [] c = "2" -> 2 [] c = "3" -> 3 [] c = "4" -> 4
    [] c = "5" -> 5 [] c = "6" -> 6 [] c = "7" -> 7 [] c = "8" -> 8 [] c = "9" -> 9

RECURSIVE DigitsVal(_)
\* the value of a run of decimal digits
DigitsVal(ds) ==
  IF ds = <<>> THEN 0 ELSE DigitsVal(SubSeq(ds, 1, Len(ds) - 1)) * 10 + DigitVal(ds[Len(ds)])

AllDigits(ds) == \A i \in 1..Len(ds) : ds[i] \in Digits

\* Number(text) for decimal texts of at most two fraction digits
Number(text) ==
  LET v == Trim(text)
      neg == v # <<>> /\ Head(v) = "-"
      body == IF neg THEN Tail(v) ELSE v
      dots == {i \in 1..Len(body) : body[i] = "."}
      dot == IF dots = {} THEN Len(body) + 1 ELSE CHOOSE i \in dots : \A j \in dots : i <= j
      int == SubSeq(body, 1, dot - 1)
      frac == SubSeq(body, dot + 1, Len(body))
      abs == DigitsVal(int) * 100
             + (IF Len(frac) = 1 THEN DigitsVal(frac) * 10 ELSE DigitsVal(frac))
  IN IF v = <<>> THEN [finite |-> TRUE, h |-> 0]
     ELSE IF body = <<>> \/ body = <<".">> \/ ~AllDigits(int) \/ ~AllDigits(frac)
             \/ Len(frac) > 2
     THEN NaN
     ELSE [finite |-> TRUE, h |-> IF neg THEN 0 - abs ELSE abs]

\* Math.round on a value in hundredths
MathRound(h) == ((h + 50) \div 100) * 100

IsInteger(h) == h % 100 = 0

\* toCents / centsFromUsd: <<>> is null, <<c>> the integer c of cents
toCents(usdText) ==
  LET v == Trim(usdText)
      n == Number(v)
  IN IF v = <<>> THEN <<>>
     ELSE IF ~n.finite \/ n.h < 0 THEN <<>>
     ELSE <<n.h>>

\* datetime-local texts and the instants new Date() resolves them to
d1 == "2025-01-01T10:00"
d1s == "2025-01-01T10:00:00"
d2 == "2025-01-02T10:00"
d3 == "2025-01-03T10:00"
notADate == "soon"
toISOString(v) ==
  CASE v \in {d1, d1s} -> "2025-01-01T10:00:00.000Z"
    [] v = d2 -> "2025-01-02T10:00:00.000Z"
    [] v = d3 -> "2025-01-03T10:00:00.000Z"
    [] OTHER -> NULL

\* a datetime-local input is a sequence of blanks and one date text
datetimeLocalToIso(dtLocal) ==
  LET v == Trim(dtLocal)
  IN IF v = <<>> THEN NULL
     ELSE IF Len(v) # 1 THEN NULL
     ELSE toISOString(v[1])

RECURSIVE MapTrim(_)
\* dates.map((d) => (d ?? "").trim())
MapTrim(dates) ==
  IF dates = <<>> THEN <<>> ELSE <<Trim(Head(dates))>> \o MapTrim(Tail(dates))

RECURSIVE FilterBoolean(_)
\* .filter(Boolean)
FilterBoolean(texts) ==
  IF texts = <<>> THEN <<>>
  ELSE IF Head(texts) = <<>> THEN FilterBoolean(Tail(texts))
  ELSE <<Head(texts)>> \o FilterBoolean(Tail(texts))

RECURSIVE NewSet(_)
\* Array.from(new Set(texts)): first occurrences, in order
NewSet(texts) ==
  IF texts = <<>> THEN <<>>
  ELSE LET init == NewSet(SubSeq(texts, 1, Len(texts) - 1))
           last == texts[Len(texts)]
       IN IF \E i \in 1..Len(init) : init[i] = last THEN init ELSE Append(init, last)

RECURSIVE MapIso(_)
\* uniqueDates.map(datetimeLocalToIso)
MapIso(dates) ==
  IF dates = <<>> THEN <<>> ELSE <<datetimeLocalToIso(Head(dates))>> \o MapIso(Tail(dates))

HasNull(isos) == \E i \in 1..Len(isos) : isos[i] = NULL

(* ------------------------- the create form ----------------------------- *)
ActivitiesRoute == <<"/activities">>
NewRoute(page) == <<"/activities/new", page>>
InsertFailedMessage == "insert failed"
UploadFailedMessage == "upload failed"

\* the two /activities/new pages
Current == "current"
Older == "older"
CreatePages == {Current, Older}

BaseForm ==
  [title |-> <<"R", "u", "n">>,
   sport |-> <<"r", "u", "n">>,
   dates |-> << <<d1>> >>,
   addressText |-> <<"1", " ", "E", "l", "m">>,
   city |-> <<"L", "A">>,
   stateUS |-> <<"C", "A">>,
   capacity |-> <<"2">>,
   waitlist |-> <<>>,
   priceUsd |-> <<"1", "0", ".", "5">>,
   whatsapp |-> <<"+", "1", "4", "0", "7", "5">>,
   description |-> <<"e", "a", "s", "y", " ", "5", "k", " ", "r", "u", "n">>,
   imageFile |-> NULL]

\* date lists an author enters
DateLists ==
  { <<>>,
    << <<" ">> >>,
    << <<d1>>, <<d2>>, <<d3>> >>,
    << <<d1>>, <<d1s>> >>,
    << <<d1>>, <<d1>> >>,
    << <<d1>>, <<" ", d1, " ">> >>,
    << <<d1>>, <<d2>>, <<d1>> >>,
    << <<d1>>, <<>>, <<d2>> >>,
    << <<d1>>, <<notADate>> >> }

\* the forms an author submits: the base form with one field changed, and an
\* image next to some date lists
Forms ==
  {BaseForm}
  \cup {[BaseForm EXCEPT !.dates = ds] : ds \in DateLists}
  \cup {[BaseForm EXCEPT !.dates = ds, !.imageFile = "image/png"] :
          ds \in { << <<d1>> >>, << <<d1>>, <<notADate>> >> }}
  \cup {[BaseForm EXCEPT !.imageFile = "text/plain"]}
  \cup {[BaseForm EXCEPT !.title = <<" ", "R", "u", " ">>]}
  \cup {[BaseForm EXCEPT !.capacity = c] :
          c \in { <<>>, <<"1", ".", "5">>, <<"0", ".", "4">>, <<"0">>, <<"x">> }}
  \cup {[BaseForm EXCEPT !.waitlist = w] : w \in { <<"0", ".", "5">>, <<"-", "1">> }}
  \cup {[BaseForm EXCEPT !.priceUsd = q] : q \in { <<>>, <<"-", "1">> }}
  \cup {[BaseForm EXCEPT !.description = <<>>]}

cleanDates(form) == FilterBoolean(MapTrim(form.dates))
uniqueDates(form) == NewSet(cleanDates(form))

\* variant: a repeated date is dropped instead of refused
HasDuplicateNever(form) == FALSE

\* uniqueDates.length !== cleanDates.length
HasDuplicate(form) == Len(uniqueDates(form)) # Len(cleanDates(form))

\* the error the validation of handleCreate throws first, or NULL; the older
\* page throws the same errors worded in Portuguese
CreateValidation(page, form) ==
  LET cap == Number(form.capacity)
      wn == Number(form.waitlist)
  IN CASE Len(Trim(form.title)) < 3 -> "Title * is required."
       [] Len(Trim(form.sport)) < 2 -> "Sport * is required."
       [] cleanDates(form) = <<>> -> "Add at least 1 Date & Time *."
       [] HasDuplicate(form) -> "You added duplicate dates. Remove the duplicates."
       [] Len(Trim(form.addressText)) < 5 -> "Address * is required."
       [] Len(Trim(form.city)) < 2 -> "City * is required."
       [] Len(Trim(form.stateUS)) < 2 -> "State * is required."
       [] page = Older /\ Trim(form.capacity) = <<>> -> "Capacity * is required."
       [] Trim(form.capacity) # <<>> /\ (~cap.finite \/ cap.h <= 0) ->
            "Capacity must be empty (unlimited) or a number > 0."
       [] Trim(form.waitlist) # <<>> /\ (~wn.finite \/ wn.h < 0) ->
            "Waitlist must be empty or a number >= 0."
       [] Trim(form.priceUsd) = <<>> -> "Price (USD) * is required."
       [] toCents(form.priceUsd) = <<>> -> "Invalid Price (USD)."
       [] page = Current /\ Len(Trim(form.description)) < 10 ->
            "Description * is required (please add a bit more detail)."
       [] page = Older /\ Len(Trim(form.whatsapp)) < 6 -> "WhatsApp * is required."
       [] OTHER -> NULL

\* the row handleCreate builds for one resolved date
CreateRow(page, user, form, iso, imagePath) ==
  [created_by |-> user,
   title |-> Trim(form.title),
   sport |-> Trim(form.sport),
   description |-> Trim(form.description),
   start_date |-> iso,
   address_text |-> Trim(form.addressText),
   city |-> Trim(form.city),
   state |-> Trim(form.stateUS),
   capacity |-> IF Trim(form.capacity) = <<>> THEN <<>> ELSE <<Number(form.capacity).h>>,
   waitlist_capacity |-> IF Trim(form.waitlist) = <<>> THEN 0 ELSE Number(form.waitlist).h,
   price_cents |-> toCents(form.priceUsd)[1],
   organizer_whatsapp |-> Trim(form.whatsapp),
   image_path |-> imagePath,
   is_public |-> TRUE,
   published |-> TRUE]

RECURSIVE WithIds(_, _)
\* the store gives each inserted row the next id
WithIds(rows, from) ==
  IF rows = <<>> THEN <<>>
  ELSE <<[id |-> <<"activity", from + 1>>, row |-> Head(rows)]>> \o WithIds(Tail(rows), from + 1)

\* variant: the rows of one insert are stored one by one and a failure keeps
\* those already stored
InsertRowsOneByOne(table, issued, rows, ok) ==
  IF ok THEN [error |-> NULL, table |-> table \o WithIds(rows, issued), issued |-> issued + Len(rows)]
  ELSE [error |-> InsertFailedMessage,
        table |-> table \o WithIds(SubSeq(rows, 1, Len(rows) - 1), issued),
        issued |-> issued + Len(rows) - 1]

\* from("app_activities").insert(rows): one statement, all rows or none
InsertRows(table, issued, rows, ok) ==
  IF ok THEN [error |-> NULL, table |-> table \o WithIds(rows, issued), issued |-> issued + Len(rows)]
  ELSE [error |-> InsertFailedMessage, table |-> table, issued |-> issued]

\* crypto.randomUUID() file name of the next upload
NextFileName == <<"file", Cardinality(eventImages) + 1>>

\* one of the create pages is open for a user and the table is empty
InitCreate ==
  /\ app_activities = [created_by |-> Owner, capacity |-> NoCapacity, waitlist_capacity |-> 0]
  /\ app_activity_attendees = <<>>
  /\ authUser = [s \in Sessions |-> NULL]
  /\ loading = [s \in Sessions |-> TRUE]
  /\ userId = [s \in Sessions |-> NULL]
  /\ isOwner = [s \in Sessions |-> FALSE]
  /\ confirmBusy = [s \in Sessions |-> FALSE]
  /\ error = [s \in Sessions |-> NULL]
  /\ info = [s \in Sessions |-> NULL]
  /\ confirmedCount = [s \in Sessions |-> 0]
  /\ attendees = [s \in Sessions |-> <<>>]
  /\ isConfirmed = [s \in Sessions |-> FALSE]
  /\ creatorAttendees = [s \in Sessions |-> <<>>]
  /\ route = [s \in Sessions |-> PageRoute]
  /\ preConfirm = [u \in Users |-> NoStanding]
  /\ ChatInitial
  /\ activityRows = <<>>
  /\ serial = 0
  /\ eventImages = {}
  /\ pubUser \in Users \cup {NULL}
  /\ pubError = NULL
  /\ pubInfo = <<>>
  /\ pubRoute \in {NewRoute(page) : page \in CreatePages}
  /\ editLoading = TRUE
  /\ editUserId = NULL
  /\ editActivity = NoActivity

\* the messages of handleCreate outside the field validation, per page
LoginMessage(page) ==
  IF page = Current THEN "You must be logged in to create an activity."
  ELSE "Você precisa estar logado para criar atividade."
InvalidFileMessage(page) ==
  IF page = Current THEN "Invalid file. Please upload an image."
  ELSE "Arquivo inválido. Envie uma imagem."
InvalidDateMessage(page) ==
  IF page = Current THEN "One of the dates is invalid."
  ELSE "Uma das datas está inválida."

\* handleCreate of the open page, from its click to its finally
handleCreate(page, form) ==
  /\ pubRoute = NewRoute(page)
  /\ UNCHANGED <<attendanceVars, route, chatVars, pubUser, editLoading, editUserId, editActivity>>
  /\ LET failed(msg) == /\ pubError' = msg
                        /\ pubInfo' = <<>>
                        /\ UNCHANGED <<activityRows, serial, pubRoute>>
         invalid == CreateValidation(page, form)
         isos == MapIso(uniqueDates(form))
     IN IF pubUser = NULL
        THEN failed(LoginMessage(page)) /\ UNCHANGED eventImages
        ELSE IF invalid # NULL
        THEN failed(invalid) /\ UNCHANGED eventImages
        ELSE IF form.imageFile # NULL /\ form.imageFile # "image/png"
        THEN failed(InvalidFileMessage(page)) /\ UNCHANGED eventImages
        ELSE \E okUpload, okInsert \in BOOLEAN :
          /\ form.imageFile # NULL => Cardinality(eventImages) < MaxImages
          /\ IF form.imageFile # NULL /\ ~okUpload
             THEN failed(UploadFailedMessage) /\ UNCHANGED eventImages
             ELSE LET imagePath == IF form.imageFile = NULL THEN <<>> ELSE NextFileName
                      rows == [i \in 1..Len(isos) |->
                                 CreateRow(page, pubUser, form, isos[i], imagePath)]
                      r == InsertRows(activityRows, serial, rows, okInsert)
                  IN /\ eventImages' = IF form.imageFile = NULL THEN eventImages
                                       ELSE eventImages \cup {NextFileName}
                     /\ IF HasNull(isos)
                        THEN failed(InvalidDateMessage(page))
                        ELSE /\ activityRows' = r.table
                             /\ serial' = r.issued
                             /\ pubError' = r.error
                             /\ IF r.error # NULL
                                THEN UNCHANGED pubRoute /\ pubInfo' = <<>>
                                ELSE /\ pubInfo' = <<"Published activities:", Len(rows)>>
                                     /\ pubRoute' = ActivitiesRoute

NextCreate == \E page \in CreatePages, form \in Forms : handleCreate(page, form)

SpecCreate == InitCreate /\ [][NextCreate]_vars

(* ---------------------- properties of the create form ------------------ *)
\* the records a step adds to the table
Created == SubSeq(activityRows', Len(activityRows) + 1, Len(activityRows'))
Published == pubRoute' = ActivitiesRoute /\ pubRoute # ActivitiesRoute

\* two cleaned date texts of the form are the same text
RepeatsADate(form) ==
  LET c == cleanDates(form)
  IN \E i, j \in 1..Len(c) : i < j /\ c[i] = c[j]

\* the instants the date texts of the form resolve to
InstantsOf(form) ==
  LET c == cleanDates(form)
  IN {datetimeLocalToIso(c[i]) : i \in 1..Len(c)}

\* C12: a create that publishes adds exactly one record per instant its dates
\* resolve to; the added records agree in everything but startInstant and their
\* startInstant values are pairwise distinct.
C12_OneRecordPerInstant ==
  [][\A page \in CreatePages, form \in Forms :
       (handleCreate(page, form) /\ Published) =>
         /\ Len(Created) = Cardinality(InstantsOf(form))
         /\ \A i, j \in 1..Len(Created) :
              /\ i # j => Created[i].row.start_date # Created[j].row.start_date
              /\ [Created[i].row EXCEPT !.start_date = NULL]
                   = [Created[j].row EXCEPT !.start_date = NULL]]_vars

\* C13: a create whose cleaned dates repeat a text, or are none, sets a
\* validation error, adds no record and stays on the page.
C13_RepeatedOrNoDatesRejected ==
  [][\A page \in CreatePages, form \in Forms :
       (handleCreate(page, form) /\ (RepeatsADate(form) \/ cleanDates(form) = <<>>)) =>
         /\ activityRows' = activityRows
         /\ pubError' # NULL
         /\ pubRoute' = pubRoute
         /\ (pubUser # NULL /\ RepeatsADate(form)) =>
              pubError' = "You added duplicate dates. Remove the duplicates."
         /\ (pubUser # NULL /\ cleanDates(form) = <<>>) =>
              pubError' = "Add at least 1 Date & Time *."]_vars

\* a signed-in author has been refused for repeated dates and the table is empty
C13_Witness ==
  /\ pubUser # NULL
  /\ pubError = "You added duplicate dates. Remove the duplicates."
  /\ activityRows = <<>>
  /\ pubRoute \in {NewRoute(page) : page \in CreatePages}

\* C14: every create adds either all the records of its dates or none: all of
\* them when it publishes, none when it reports an error.
C14_AllOrNothing ==
  [][\A page \in CreatePages, form \in Forms :
       handleCreate(page, form) =>
         /\ Len(Created) \in {0, Len(uniqueDates(form))}
         /\ pubError' # NULL => activityRows' = activityRows
         /\ pubError' = NULL => (Len(Created) = Len(uniqueDates(form)) /\ Published)]_vars

\* the insert of a create has failed and the table holds no record
C14_Witness ==
  /\ pubError = InsertFailedMessage
  /\ activityRows = <<>>
  /\ pubUser # NULL

\* C30 (as claimed): a create that reports a validation error, that of a date
\* text that does not parse included, has added no record to the table and no
\* file to the event-images bucket.
C30_RejectedCreateWritesNothing ==
  [][\A page \in CreatePages, form \in Forms :
       ( /\ handleCreate(page, form)
         /\ pubError' # NULL
         /\ pubError' \notin {UploadFailedMessage, InsertFailedMessage} ) =>
         /\ activityRows' = activityRows
         /\ eventImages' = eventImages]_vars

(* ------------------ the edit pages and the detail page ----------------- *)
Earlier == "earlier"
Later == "later"
EditRoute(page) == <<"/activities/[id]/edit", page>>
DetailRoute == <<"/activities/[id]">>
PermissionMessage == "You do not have permission to edit this activity."
UpdateFailedMessage == "update failed"
DeleteFailedMessage == "delete failed"

\* .eq("id", id): the positions of the rows of that id
EqId(table, id) == {i \in 1..Len(table) : table[i].id = id}

\* update(payload).eq("id", id): the columns of the payload are overwritten
UpdateRows(table, id, payload) ==
  [i \in 1..Len(table) |->
     IF table[i].id = id
     THEN [id |-> id,
           row |-> [c \in DOMAIN table[i].row |->
                      IF c \in DOMAIN payload THEN payload[c] ELSE table[i].row[c]]]
     ELSE table[i]]

RECURSIVE DeleteRows(_, _)
\* delete().eq("id", id)
DeleteRows(table, id) ==
  IF table = <<>> THEN <<>>
  ELSE IF Head(table).id = id THEN DeleteRows(Tail(table), id)
  ELSE <<Head(table)>> \o DeleteRows(Tail(table), id)

\* an edit page or the detail page is opened on the record of the owner
InitEdit ==
  /\ app_activities = [created_by |-> Owner, capacity |-> NoCapacity, waitlist_capacity |-> 0]
  /\ app_activity_attendees = <<>>
  /\ authUser = [s \in Sessions |-> NULL]
  /\ loading = [s \in Sessions |-> TRUE]
  /\ userId = [s \in Sessions |-> NULL]
  /\ isOwner = [s \in Sessions |-> FALSE]
  /\ confirmBusy = [s \in Sessions |-> FALSE]
  /\ error = [s \in Sessions |-> NULL]
  /\ info = [s \in Sessions |-> NULL]
  /\ confirmedCount = [s \in Sessions |-> 0]
  /\ attendees = [s \in Sessions |-> <<>>]
  /\ isConfirmed = [s \in Sessions |-> FALSE]
  /\ creatorAttendees = [s \in Sessions |-> <<>>]
  /\ route = [s \in Sessions |-> PageRoute]
  /\ preConfirm = [u \in Users |-> NoStanding]
  /\ ChatInitial
  /\ \E image \in {<<>>, <<"file", 1>>} :
       /\ activityRows = <<[id |-> editId,
                            row |-> CreateRow(Current, Owner,
                                              [BaseForm EXCEPT !.title = <<"W", "a", "l", "k">>],
                                              datetimeLocalToIso(<<d1>>), image)]>>
       /\ eventImages = IF image = <<>> THEN {} ELSE {image}
  /\ serial = 1
  /\ pubUser \in Users \cup {NULL}
  /\ pubError = NULL
  /\ pubInfo = <<>>
  /\ pubRoute \in {EditRoute(Earlier), EditRoute(Later), DetailRoute}
  /\ editLoading = TRUE
  /\ editUserId = NULL
  /\ editActivity = NoActivity

editFixed == <<attendanceVars, route, chatVars, pubUser>>

\* the load effect of the earlier edit page
loadEditEarlier ==
  /\ pubRoute = EditRoute(Earlier) /\ editLoading
  /\ editLoading' = FALSE
  /\ pubInfo' = <<>>
  /\ UNCHANGED <<editFixed, activityRows, serial, eventImages, pubRoute, editUserId, editActivity>>
  /\ \E okFetch \in BOOLEAN :
       LET found == EqId(activityRows, editId)
       IN pubError' =
            IF pubUser = NULL THEN "Você precisa estar logado."
            ELSE IF ~okFetch \/ found = {} THEN FetchFailedMessage
            ELSE IF \A i \in found : activityRows[i].row.created_by # pubUser
            THEN "Você não é o dono desta activity."
            ELSE NULL

\* the load effect of the later edit page
loadEdit ==
  /\ pubRoute = EditRoute(Later) /\ editLoading
  /\ pubInfo' = <<>>
  /\ UNCHANGED <<editFixed, activityRows, serial, eventImages>>
  /\ \E okFetch \in BOOLEAN :
       LET found == EqId(activityRows, editId)
           a == activityRows[CHOOSE i \in found : TRUE].row
       IN IF pubUser = NULL
          THEN /\ pubRoute' = <<LoginRoute>>
               /\ editLoading' = FALSE
               /\ pubError' = NULL
               /\ UNCHANGED <<editUserId, editActivity>>
          ELSE IF ~okFetch \/ found = {}
          THEN /\ pubError' = FetchFailedMessage
               /\ editUserId' = pubUser
               /\ editActivity' = NoActivity
               /\ editLoading' = FALSE
               /\ UNCHANGED pubRoute
          ELSE IF a.created_by # pubUser
          THEN \* router.replace: the detail page is mounted afresh
               /\ pubRoute' = DetailRoute
               /\ editLoading' = TRUE
               /\ editUserId' = NULL
               /\ pubError' = NULL
               /\ UNCHANGED editActivity
          ELSE /\ editActivity' = [loaded |-> TRUE, row |-> a]
               /\ editUserId' = pubUser
               /\ editLoading' = FALSE
               /\ pubError' = NULL
               /\ UNCHANGED pubRoute

\* loadActivity of the detail page, as far as handleDelete reads its state
loadDetail ==
  /\ pubRoute = DetailRoute /\ editLoading
  /\ editLoading' = FALSE
  /\ editUserId' = pubUser
  /\ pubInfo' = <<>>
  /\ UNCHANGED <<editFixed, activityRows, serial, eventImages, pubRoute>>
  /\ \E okFetch \in BOOLEAN :
       LET found == EqId(activityRows, editId)
       IN IF ~okFetch \/ found = {}
          THEN pubError' = FetchFailedMessage /\ editActivity' = NoActivity
          ELSE /\ pubError' = NULL
               /\ editActivity' = [loaded |-> TRUE,
                                   row |-> activityRows[CHOOSE i \in found : TRUE].row]

\* isOwner of the detail page
DetailIsOwner ==
  editUserId # NULL /\ editActivity.loaded /\ editActivity.row.created_by = editUserId

\* startDate of the earlier edit form: its one date field
startDate(form) == IF form.dates = <<>> THEN <<>> ELSE form.dates[1]

\* the error the validation of the earlier handleSave throws first, or NULL
EarlierValidation(form) ==
  LET cap == Number(form.capacity)
      wn == Number(form.waitlist)
      wa == Trim(form.whatsapp)
  IN CASE Len(Trim(form.title)) < 3 -> "Title é obrigatório (mín. 3)."
       [] Len(Trim(form.sport)) < 2 -> "Sport é obrigatório."
       [] Trim(startDate(form)) = <<>> -> "Date & Time é obrigatório."
       [] datetimeLocalToIso(startDate(form)) = NULL -> "Date & Time inválido."
       [] Len(Trim(form.addressText)) < 5 -> "Address é obrigatório."
       [] Len(Trim(form.city)) < 2 -> "City é obrigatório."
       [] Len(Trim(form.stateUS)) < 2 -> "State é obrigatório."
       [] Trim(form.capacity) = <<>> -> "Capacity é obrigatória."
       [] ~cap.finite \/ cap.h <= 0 -> "Capacity deve ser um número > 0."
       [] Trim(form.waitlist) # <<>> /\ (~wn.finite \/ wn.h < 0) ->
            "Waitlist deve ser vazio ou número >= 0."
       [] Trim(form.priceUsd) = <<>> -> "Price (USD) é obrigatório."
       [] toCents(form.priceUsd) = <<>> -> "Price (USD) inválido."
       [] wa # <<>> /\ Len(wa) < 6 -> "WhatsApp inválido (ex: +14075551234)."
       [] OTHER -> NULL

\* the payload of the earlier handleSave
EarlierPayload(form) ==
  [title |-> Trim(form.title),
   sport |-> Trim(form.sport),
   description |-> Trim(form.description),
   start_date |-> datetimeLocalToIso(startDate(form)),
   address_text |-> Trim(form.addressText),
   city |-> Trim(form.city),
   state |-> Trim(form.stateUS),
   capacity |-> <<MathRound(Number(form.capacity).h)>>,
   waitlist_capacity |-> IF Trim(form.waitlist) = <<>> THEN 0
                         ELSE MathRound(Number(form.waitlist).h),
   price_cents |-> toCents(form.priceUsd)[1],
   organizer_whatsapp |-> Trim(form.whatsapp),
   is_public |-> TRUE,
   published |-> TRUE]

\* handleSave of the earlier edit page, from its click to its finally
handleSaveEarlier(form) ==
  /\ pubRoute = EditRoute(Earlier) /\ ~editLoading
  /\ UNCHANGED <<editFixed, serial, eventImages, pubRoute, editLoading, editUserId, editActivity>>
  /\ LET invalid == EarlierValidation(form)
         failed(msg) == pubError' = msg /\ pubInfo' = <<>> /\ UNCHANGED activityRows
     IN IF invalid # NULL
        THEN failed(invalid)
        ELSE \E okUpdate \in BOOLEAN :
               IF okUpdate
               THEN /\ activityRows' = UpdateRows(activityRows, editId, EarlierPayload(form))
                    /\ pubError' = NULL
                    /\ pubInfo' = <<"Activity atualizada com sucesso!">>
               ELSE failed(UpdateFailedMessage)

\* handleDelete of the earlier edit page, confirmed in its dialog
handleDeleteEarlier ==
  /\ pubRoute = EditRoute(Earlier) /\ ~editLoading
  /\ pubInfo' = <<>>
  /\ UNCHANGED <<editFixed, serial, eventImages, editLoading, editUserId, editActivity>>
  /\ \E okDelete \in BOOLEAN :
       IF okDelete
       THEN /\ activityRows' = DeleteRows(activityRows, editId)
            /\ pubError' = NULL
            /\ pubRoute' = ActivitiesRoute
       ELSE /\ pubError' = DeleteFailedMessage
            /\ UNCHANGED <<activityRows, pubRoute>>

\* handleDelete of the detail page, confirmed in its dialog
handleDelete ==
  /\ pubRoute = DetailRoute /\ ~editLoading
  /\ UNCHANGED <<editFixed, serial, editLoading, editUserId, editActivity>>
  /\ IF ~DetailIsOwner
     THEN UNCHANGED <<activityRows, eventImages, pubError, pubInfo, pubRoute>>
     ELSE /\ pubInfo' = <<>>
          /\ \E okDelete, okRemove \in BOOLEAN :
               IF okDelete
               THEN /\ activityRows' = DeleteRows(activityRows, editId)
                    /\ eventImages' = IF okRemove
                                      THEN eventImages \ {editActivity.row.image_path}
                                      ELSE eventImages
                    /\ pubError' = NULL
                    /\ pubRoute' = ActivitiesRoute
               ELSE /\ pubError' = DeleteFailedMessage
                    /\ UNCHANGED <<activityRows, eventImages, pubRoute>>

\* the error the validation of the later handleSave throws first, or NULL
EditValidation(form) ==
  LET cap == Number(form.capacity)
      wn == Number(form.waitlist)
  IN CASE Len(Trim(form.title)) < 3 -> "Title * is required."
       [] Len(Trim(form.sport)) < 2 -> "Sport * is required."
       [] cleanDates(form) = <<>> -> "Add at least 1 Date & Time *."
       [] HasDuplicate(form) -> "You added duplicate dates. Remove duplicates."
       [] HasNull(MapIso(uniqueDates(form))) -> "One of the dates is invalid."
       [] Len(Trim(form.addressText)) < 5 -> "Address * is required."
       [] Len(Trim(form.city)) < 2 -> "City * is required."
       [] Len(Trim(form.stateUS)) < 2 -> "State * is required."
       [] Trim(form.capacity) # <<>> /\ (~cap.finite \/ cap.h <= 0) ->
            "Capacity must be empty (unlimited) or a number > 0."
       [] Trim(form.waitlist) # <<>> /\ (~wn.finite \/ wn.h < 0) ->
            "Waitlist must be empty or a number >= 0."
       [] Trim(form.priceUsd) = <<>> -> "Price (USD) * is required."
       [] toCents(form.priceUsd) = <<>> -> "Invalid Price (USD)."
       [] Len(Trim(form.description)) < 10 ->
            "Description * is required (please add a bit more detail)."
       [] form.imageFile # NULL /\ form.imageFile # "image/png" ->
            "Invalid file. Please upload an image."
       [] OTHER -> NULL

\* updatePayload of the later handleSave for one date
EditPayload(form, iso, imagePath) ==
  [title |-> Trim(form.title),
   sport |-> Trim(form.sport),
   description |-> Trim(form.description),
   start_date |-> iso,
   address_text |-> Trim(form.addressText),
   city |-> Trim(form.city),
   state |-> Trim(form.stateUS),
   capacity |-> IF Trim(form.capacity) = <<>> THEN <<>> ELSE <<Number(form.capacity).h>>,
   waitlist_capacity |-> IF Trim(form.waitlist) = <<>> THEN 0 ELSE Number(form.waitlist).h,
   price_cents |-> toCents(form.priceUsd)[1],
   organizer_whatsapp |-> Trim(form.whatsapp),
   image_path |-> imagePath,
   is_public |-> editActivity.row.is_public,
   published |-> editActivity.row.published]

\* variant: every date gets a new record
ExtraIsoDatesAll(isoDates) == isoDates

\* isoDates.slice(1)
ExtraIsoDates(isoDates) == Tail(isoDates)

\* handleSave of the later edit page, from its click to its finally
handleSave(form) ==
  /\ pubRoute = EditRoute(Later) /\ ~editLoading
  /\ UNCHANGED <<editFixed, editLoading, editUserId, editActivity>>
  /\ LET failed(msg) == pubError' = msg /\ pubInfo' = <<>> /\ UNCHANGED pubRoute
         invalid == EditValidation(form)
         isoDates == MapIso(uniqueDates(form))
     IN IF editUserId = NULL
        THEN /\ pubRoute' = <<LoginRoute>>
             /\ pubError' = NULL /\ pubInfo' = <<>>
             /\ UNCHANGED <<activityRows, serial, eventImages>>
        ELSE IF ~editActivity.loaded \/ editActivity.row.created_by # editUserId
        THEN failed(PermissionMessage) /\ UNCHANGED <<activityRows, serial, eventImages>>
        ELSE IF invalid # NULL
        THEN failed(invalid) /\ UNCHANGED <<activityRows, serial, eventImages>>
        ELSE \E okUpload, okUpdate, okInsert, okRemove \in BOOLEAN :
          /\ form.imageFile # NULL => Cardinality(eventImages) < MaxImages
          /\ IF form.imageFile # NULL /\ ~okUpload
             THEN failed(UploadFailedMessage) /\ UNCHANGED <<activityRows, serial, eventImages>>
             ELSE LET oldImagePath == editActivity.row.image_path
                      newImagePath == IF form.imageFile = NULL THEN oldImagePath
                                      ELSE NextFileName
                      uploaded == IF form.imageFile = NULL THEN eventImages
                                  ELSE eventImages \cup {NextFileName}
                      updated == UpdateRows(activityRows, editId,
                                            EditPayload(form, isoDates[1], newImagePath))
                      extra == ExtraIsoDates(isoDates)
                      rows == [i \in 1..Len(extra) |->
                                 [created_by |-> editUserId]
                                   @@ EditPayload(form, extra[i], newImagePath)]
                      r == InsertRows(updated, serial, rows, okInsert)
                  IN IF ~okUpdate
                     THEN /\ failed(UpdateFailedMessage)
                          /\ eventImages' = uploaded
                          /\ UNCHANGED <<activityRows, serial>>
                     ELSE IF extra # <<>> /\ r.error # NULL
                     THEN /\ failed(r.error)
                          /\ eventImages' = uploaded
                          /\ activityRows' = r.table
                          /\ serial' = r.issued
                     ELSE /\ activityRows' = IF extra = <<>> THEN updated ELSE r.table
                          /\ serial' = IF extra = <<>> THEN serial ELSE r.issued
                          /\ eventImages' =
                               IF form.imageFile # NULL /\ oldImagePath # <<>>
                                  /\ oldImagePath # newImagePath /\ okRemove
                               THEN uploaded \ {oldImagePath}
                               ELSE uploaded
                          /\ pubError' = NULL
                          /\ pubInfo' = <<"Saved.", Len(extra)>>
                          /\ pubRoute' = DetailRoute

NextEdit ==
  \/ loadEditEarlier
  \/ loadEdit
  \/ loadDetail
  \/ \E form \in Forms : handleSaveEarlier(form)
  \/ handleDeleteEarlier
  \/ handleDelete
  \/ \E form \in Forms : handleSave(form)

SpecEdit == InitEdit /\ [][NextEdit]_vars

(* ------------------- properties of the edit pages ---------------------- *)
\* the record the pages are opened on, before and after a step
Edited == activityRows[CHOOSE i \in EqId(activityRows, editId) : TRUE]
EditedAfter == activityRows'[CHOOSE i \in EqId(activityRows', editId) : TRUE]
Saved == pubRoute' = DetailRoute /\ pubError' = NULL

\* C15: a later-page save that succeeds with k unique dates lets the table
\* grow by k-1 records; the edited record keeps its id and place and gets the
\* first resolved date; each other date gets one new record that equals the
\* edited record in everything but startInstant; no other record changes.
C15_EditExpansion ==
  [][\A form \in Forms :
       (handleSave(form) /\ Saved) =>
         LET isos == MapIso(uniqueDates(form))
             k == Len(isos)
         IN /\ k >= 1
            /\ Len(activityRows') = Len(activityRows) + k - 1
            /\ \A i \in 1..Len(activityRows) :
                 /\ activityRows'[i].id = activityRows[i].id
                 /\ activityRows[i].id # editId => activityRows'[i] = activityRows[i]
            /\ EditedAfter.row.start_date = isos[1]
            /\ EditedAfter.row.created_by = Edited.row.created_by
            /\ \A j \in 1..(k - 1) :
                 /\ Created[j].row = [EditedAfter.row EXCEPT !.start_date = isos[j + 1]]
                 /\ \A i \in 1..Len(activityRows) : Created[j].id # activityRows[i].id]_vars

\* a save with three dates has left the edited record and two new records
C15_Witness ==
  /\ pubRoute = DetailRoute
  /\ pubInfo = <<"Saved.", 2>>
  /\ Len(activityRows) = 3
  /\ EqId(activityRows, editId) = {1}

\* C16: a later-page save that reports an error leaves the table as it was
\* before the save.
C16_FailedSaveChangesNothing ==
  [][\A form \in Forms :
       (handleSave(form) /\ pubError' # NULL) => activityRows' = activityRows]_vars

\* C18: every record of the table has capacity null or a positive integer,
\* waitlistCapacity a non-negative integer and priceCents a non-negative integer.
C18_RecordNumbersWellFormed ==
  \A i \in 1..Len(activityRows) :
    LET r == activityRows[i].row
    IN /\ r.capacity = <<>> \/ (IsInteger(r.capacity[1]) /\ r.capacity[1] > 0)
       /\ IsInteger(r.waitlist_capacity) /\ r.waitlist_capacity >= 0
       /\ r.price_cents \in Nat

\* the user of the session is signed in and is not the owner of the record
NotOwner ==
  /\ pubUser # NULL
  /\ EqId(activityRows, editId) # {}
  /\ Edited.row.created_by # pubUser

\* C19: a save or delete invoked by a user who is not the owner of the record
\* leaves the table unchanged and reports an error; no step changes the owner
\* of a record.
C19_OnlyOwnerWrites ==
  [][/\ ((\/ \E form \in Forms : handleSaveEarlier(form) \/ handleSave(form)
          \/ handleDeleteEarlier
          \/ handleDelete) /\ NotOwner) =>
           (activityRows' = activityRows /\ pubError' # NULL)
     /\ \A i \in 1..Len(activityRows), j \in 1..Len(activityRows') :
          activityRows[i].id = activityRows'[j].id =>
            activityRows[i].row.created_by = activityRows'[j].row.created_by]_vars

====
